---- MODULE Spec2Model ----
(***************************************************************************)
(* A model of ctr-agent: the host-side session controller and slug         *)
(* allocator (src/ctr-agent.py, outside_mode / generate_random_slug), the  *)
(* sandbox-side initializer and its exit-time reconciliation               *)
(* (src/ctr-agent.py, inside_mode), and the dashboard state tracker        *)
(* (src/meta.py).                                                          *)
(*                                                                         *)
(* External tools (docker, git, tmux) are the environment: each call is    *)
(* modelled by what the tool does to the shared state, and by a return     *)
(* code the environment chooses where the code tolerates failure.          *)
(***************************************************************************)
EXTENDS Integers, Sequences, FiniteSets, TLC

(***************************************************************************)
(* Bounds of the exploration.                                              *)
(***************************************************************************)
\* number of controller processes started against the same registry and repo
NumSessions == 2
\* commits an agent makes on its branch during one session
MaxCommits == 1
\* draws per allocator explored when two controllers run side by side
MaxDrawsExplored == 2
\* auxiliary panes in the configuration document
MaxPanes == 1

Sessions == 1..NumSessions

(***************************************************************************)
(* Names.  A name is a sequence of syllables, so that "bee" is a proper    *)
(* substring of "beetle" as it is in ANIMALS.                              *)
(***************************************************************************)
\* the word pools, cut to the words the exploration draws from
ADJECTIVES == << <<"cool">> >>

ANIMALS == << <<"bee">>, <<"bee", "tle">> >>

\* f"{adjective}-{animal}"
MakeSlug(adjective, animal) == adjective \o <<"-">> \o animal

Slugs == { MakeSlug(ADJECTIVES[i], ANIMALS[j]) :
             i \in 1..Len(ADJECTIVES), j \in 1..Len(ANIMALS) }

NoSlug == <<>>

\* needle occurs in hay as a contiguous run (docker's name filter)
Contains(hay, needle) ==
    \E k \in 0..(Len(hay) - Len(needle)) :
        SubSeq(hay, k + 1, k + Len(needle)) = needle

max_attempts == 100

\* process return codes: 0 succeeds, 1 stands for every failure
ReturnCodes == {0, 1}
NotRun == "not run"

\* magic_dns_suffix = None, or "" after rstrip: no naming suffix
NoSuffix == ""

\* the commit `git rev-parse HEAD` names on the host when a session is launched
HostHead == 0
NoCommit == -1

VARIABLES
    registry,        \* docker: the containers, running or exited
    branches,        \* git: slug-named branch -> its tip, or NoCommit
    worktrees,       \* git: the registered worktrees, [slug, owner]
    additional_panes,\* config["additional_panes"], by its length
    opc,             \* outside_mode: where each controller is
    draws,           \* generate_random_slug: iterations of the loop so far
    slug,            \* the slug drawn last, args.slug once returned
    result,          \* generate_random_slug: returncode of the last registry query
    open_browser,    \* args.open
    committish,      \* args.committish handed to the sandbox
    ipc,             \* inside_mode: where each sandbox is
    panes,           \* tmux windows of session "s" in the sandbox
    dirty,           \* the worktree has modified or untracked content
    git_status,      \* inside_mode: returncode of git status --porcelain
    current_commit,  \* inside_mode: returncode of git rev-parse <slug>
    cleanup,         \* inside_mode: returncodes of worktree remove / branch -D
    container_states,\* meta.py: container id -> ContainerState
    now,             \* meta.py: what time.time() returned last
    docker_ps,       \* the ids of the running containers, as docker ps lists them
    pane_text,       \* the text each container's tmux pane s:0 shows
    request,         \* DashboardHandler: the path being served, or Idle
    pending,         \* update_container_states: the containers still to visit
    current_ids,     \* update_container_states: the ids visited in this poll
    captured,        \* what capture_tmux_pane returned last, per tracked id
    response,        \* the response to the latest request
    check_results,   \* get_ctr_agent_containers: listed id -> its probe exited 0
    backlog,         \* connections waiting in the listen queue of the server
    agent,           \* args.agent, the agent key given on the command line
    gate,            \* RedirectHandler: where the one-request server is
    elapsed,         \* RedirectHandler: time.time() - start_time, in ticks
    attempt,         \* RedirectHandler: resolver queries made so far
    magic_dns_suffix,\* RedirectHandler: the suffix do_GET detected, "" for none
    dig_result,      \* RedirectHandler: how the last resolver query ended
    sent,            \* RedirectHandler: the responses written to the browser
    base_config,     \* load_config: the document read from config.json
    overlay_config,  \* load_config: the document read from config-overlay.json
    config           \* load_config: the configuration it returns

vars == << registry, branches, worktrees, additional_panes, opc, draws, slug,
           result, open_browser, committish, ipc, panes, dirty, git_status,
           current_commit, cleanup, container_states, now, docker_ps,
           pane_text, request, pending, current_ids, captured, response,
           check_results, backlog, agent, gate, elapsed, attempt,
           magic_dns_suffix, dig_result, sent, base_config, overlay_config,
           config >>

dashVars == << container_states, now, docker_ps, pane_text, request, pending,
               current_ids, captured, response, check_results, backlog >>

repoVars == << branches, worktrees >>
allocVars == << draws, slug, result >>
outsideVars == << opc, open_browser, committish >>
insideVars == << ipc, panes, dirty, git_status, current_commit, cleanup >>
gateVars == << gate, elapsed, attempt, magic_dns_suffix, dig_result, sent >>
inputVars == << agent, base_config, overlay_config, config >>

(***************************************************************************)
(* docker                                                                  *)
(***************************************************************************)
Container(n, o, r) == [name |-> n, owner |-> o, running |-> r]

\* containers of other tools or earlier runs that may already hold a name
ExternalContainers == { Container(n, 0, TRUE) : n \in Slugs }

\* docker ps -a --filter name=<slug> --format {{.Names}}: every container,
\* running or not, whose name contains the filter text
DockerPsNames(reg, filter) == { c.name : c \in { d \in reg : Contains(d.name, filter) } }

\* result.stdout.strip().split('\n'): the empty output splits into one empty line
Lines(stdout) == IF stdout = {} THEN { <<>> } ELSE stdout

NameTaken(reg, n) == \E c \in reg : c.name = n

\* the process of the sandbox ends: a detached container stays listed as
\* exited, an interactive one was started with --rm and is removed
ContainerExit(reg, s, detached) ==
    IF detached
    THEN { IF c.owner = s THEN Container(c.name, s, FALSE) ELSE c : c \in reg }
    ELSE { c \in reg : c.owner # s }

IsRunning(reg, s) == \E c \in reg : c.owner = s /\ c.running

(***************************************************************************)
(* Configuration documents.  A JSON value is tagged with its Python type:  *)
(* a dict is a function on its keys, a list a sequence, a scalar a string. *)
(***************************************************************************)
Scalar(v) == [kind |-> "scalar", items |-> v]
List(seq) == [kind |-> "list", items |-> seq]
Dict(f) == [kind |-> "dict", items |-> f]

\* the documents with keys among Keys and values among Vals
DictsOver(Keys, Vals) ==
    UNION { { Dict(f) : f \in [K -> Vals] } : K \in SUBSET Keys }

Scalars == { Scalar(v) : v \in {"s", "t"} }
Lists == { List(seq) : seq \in {<< >>, <<"A">>, <<"B">>} }

\* the values of a key of a top-level document: scalars, lists, and dicts
\* that hold scalars, lists and dicts of scalars
NestedDicts == DictsOver({"a", "b"}, Scalars)
ConfigValues ==
    Scalars \cup Lists \cup DictsOver({"x", "y"}, Scalars \cup Lists \cup NestedDicts)

\* what json.load may return for config.json or config-overlay.json
Documents ==
    { Dict(f) : f \in UNION { [K -> ConfigValues] : K \in SUBSET {"agents"} } }

\* {**base, **overlay}
DictUpdate(base, overlay) ==
    [ key \in DOMAIN base \cup DOMAIN overlay |->
        IF key \in DOMAIN overlay THEN overlay[key] ELSE base[key] ]

\* a slip: lists are replaced like scalars
merge_configs_ListsReplaced(base, overlay) ==
    Dict([ key \in DOMAIN base.items \cup DOMAIN overlay.items |->
        IF key \notin DOMAIN overlay.items THEN base.items[key]
        ELSE IF key \notin DOMAIN base.items THEN overlay.items[key]
        ELSE IF overlay.items[key].kind = "dict" /\ base.items[key].kind = "dict"
             THEN Dict(DictUpdate(base.items[key].items, overlay.items[key].items))
        ELSE overlay.items[key] ])

\* merge_configs: result = base_config.copy(), then for each key of the
\* overlay the four branches of the if / elif / elif / else
merge_configs(base, overlay) ==
    Dict([ key \in DOMAIN base.items \cup DOMAIN overlay.items |->
        IF key \notin DOMAIN overlay.items THEN base.items[key]
        ELSE IF key \notin DOMAIN base.items THEN overlay.items[key]
        ELSE IF overlay.items[key].kind = "dict" /\ base.items[key].kind = "dict"
             THEN Dict(DictUpdate(base.items[key].items, overlay.items[key].items))
        ELSE IF overlay.items[key].kind = "list" /\ base.items[key].kind = "list"
             THEN List(base.items[key].items \o overlay.items[key].items)
        ELSE overlay.items[key] ])

\* no document has been read
NoDocument == Dict(<< >>)

\* load_config with both files present: config = merge_configs(config, overlay_config)
load_config ==
    /\ config = NoDocument
    /\ config' = merge_configs(base_config, overlay_config)
    /\ UNCHANGED << agent, base_config, overlay_config >>
    /\ UNCHANGED << registry, repoVars, additional_panes, allocVars,
                    outsideVars, insideVars, dashVars, gateVars >>

(***************************************************************************)
(* generate_random_slug: one iteration of the loop.                        *)
(***************************************************************************)
\* a slip: "no line of output" tested on the split, which is never empty
SlugAvailable_NoLines(rc, stdout, drawn) == rc = 0 /\ Lines(stdout) = {}

\* a slip: the return code of the registry query is not looked at
SlugAvailable_IgnoresReturnCode(rc, stdout, drawn) == drawn \notin Lines(stdout)

\* if result.returncode == 0 and slug not in result.stdout.strip().split('\n')
SlugAvailable(rc, stdout, drawn) == rc = 0 /\ drawn \notin Lines(stdout)

generate_random_slug(s) ==
    /\ opc[s] = "alloc"
    /\ draws[s] < max_attempts
    /\ \E i \in 1..Len(ADJECTIVES), j \in 1..Len(ANIMALS), rc \in ReturnCodes :
         LET drawn == MakeSlug(ADJECTIVES[i], ANIMALS[j])
             stdout == IF rc = 0 THEN DockerPsNames(registry, drawn) ELSE {}
         IN /\ draws' = [draws EXCEPT ![s] = @ + 1]
            /\ slug' = [slug EXCEPT ![s] = drawn]
            /\ result' = [result EXCEPT ![s] = rc]
            /\ opc' = [opc EXCEPT ![s] =
                  IF SlugAvailable(rc, stdout, drawn) THEN "prepare"
                  ELSE IF draws[s] + 1 = max_attempts THEN "exhausted"
                  ELSE "alloc"]
    /\ UNCHANGED << registry, repoVars, additional_panes, open_browser,
                    committish, insideVars, dashVars, gateVars, inputVars >>

(***************************************************************************)
(* outside_mode after the slug is allocated.                               *)
(***************************************************************************)
\* the keys of config["agents"] in get_default_config
agents == {"codex", "claude", "gemini", "bash"}

\* agent keys an operator may give on the command line
AgentKeys == {"bash", "vim"}

\* a slip: the result of the agent lookup is not tested
LaunchAllowed_AgentUnchecked(gitOk, agentKey) == gitOk

\* the three git rev-parse calls are check=True, and
\* agent_config = config["agents"].get(args.agent); if not agent_config: raise
LaunchAllowed(gitOk, agentKey) == gitOk /\ agentKey \in agents

\* git context, the agent lookup and, with --open, the one-request server
\* thread and the browser; the container is not started yet
outside_mode_prepare(s) ==
    /\ opc[s] = "prepare"
    /\ \E gitOk \in BOOLEAN :
         /\ committish' = [committish EXCEPT ![s] =
                              IF gitOk THEN HostHead ELSE NoCommit]
         /\ IF LaunchAllowed(gitOk, agent[s])
            THEN /\ opc' = [opc EXCEPT ![s] = "launch"]
                 /\ gate' = [gate EXCEPT ![s] =
                                IF open_browser[s] THEN "listening" ELSE "none"]
            ELSE /\ opc' = [opc EXCEPT ![s] = "fatal"]
                 /\ UNCHANGED gate
    /\ UNCHANGED << registry, repoVars, additional_panes, allocVars,
                    open_browser, insideVars, dashVars, elapsed, attempt,
                    magic_dns_suffix, dig_result, sent, inputVars >>

\* a slip: the container is started without --name, so docker has no name to refuse
DockerRunSucceeds_Unnamed(reg, n, rc) == rc = 0

\* docker run --name <slug>: docker refuses a name a container already holds
DockerRunSucceeds(reg, n, rc) == rc = 0 /\ ~NameTaken(reg, n)

\* docker run: detached (-d) it returns once the container is started,
\* interactive (--rm -it) it stays in the foreground
outside_mode_launch(s) ==
    /\ opc[s] = "launch"
    /\ \E rc \in ReturnCodes :
         IF DockerRunSucceeds(registry, slug[s], rc)
         THEN /\ registry' = registry \cup { Container(slug[s], s, TRUE) }
              /\ ipc' = [ipc EXCEPT ![s] = "INIT"]
              /\ opc' = [opc EXCEPT ![s] =
                    IF open_browser[s] THEN "started" ELSE "attached"]
         ELSE /\ opc' = [opc EXCEPT ![s] = "exited"]
              /\ UNCHANGED << registry, ipc >>
    /\ UNCHANGED << repoVars, additional_panes, allocVars, open_browser,
                    committish, panes, dirty, git_status, current_commit,
                    cleanup, dashVars, gateVars, inputVars >>

\* signal.signal(signal.SIGINT, stop_container_handler), after the prints
\* that follow the detached docker run
signal_signal(s) ==
    /\ opc[s] = "started"
    /\ opc' = [opc EXCEPT ![s] = "waiting"]
    /\ UNCHANGED << registry, repoVars, additional_panes, allocVars,
                    open_browser, committish, insideVars, dashVars, gateVars,
                    inputVars >>

\* docker wait <slug> (detached) or the foreground docker run returns
outside_mode_wait(s) ==
    /\ opc[s] \in {"waiting", "attached"}
    /\ ~IsRunning(registry, s)
    /\ opc' = [opc EXCEPT ![s] = "exited"]
    /\ UNCHANGED << registry, repoVars, additional_panes, allocVars,
                    open_browser, committish, insideVars, dashVars, gateVars,
                    inputVars >>

\* a slip: the handler exits without stopping the container
stop_container_handler_ExitOnly(reg, s) == reg

\* stop_container_handler: docker stop <slug> kills the process of the
\* sandbox; the detached container stays listed as exited
stop_container_handler(reg, s) == ContainerExit(reg, s, TRUE)

\* SIGINT reaches the controller of a detached launch. Once the handler is
\* installed it stops the container and calls sys.exit(0); before that the
\* default handler raises KeyboardInterrupt, which nothing catches
interrupt(s) ==
    /\ opc[s] \in {"started", "waiting"}
    /\ IF opc[s] = "waiting"
       THEN /\ registry' = stop_container_handler(registry, s)
            /\ ipc' = [ipc EXCEPT ![s] =
                          IF IsRunning(registry, s) THEN "KILLED" ELSE @]
            /\ opc' = [opc EXCEPT ![s] = "stopped"]
       ELSE /\ opc' = [opc EXCEPT ![s] = "interrupted"]
            /\ UNCHANGED << registry, ipc >>
    /\ UNCHANGED << repoVars, additional_panes, allocVars, open_browser,
                    committish, panes, dirty, git_status, current_commit,
                    cleanup, dashVars, gateVars, inputVars >>

\* the operator detaches from the foreground container (docker's detach
\* keys): docker run returns while the sandbox keeps running
detach(s) ==
    /\ opc[s] = "attached"
    /\ IsRunning(registry, s)
    /\ opc' = [opc EXCEPT ![s] = "exited"]
    /\ UNCHANGED << registry, repoVars, additional_panes, allocVars,
                    open_browser, committish, insideVars, dashVars, gateVars,
                    inputVars >>

(***************************************************************************)
(* RedirectHandler: the one-request server that outside_mode starts with   *)
(* --open.  The clock of the handler is counted in ticks of half a unit.   *)
(***************************************************************************)
\* timeout = 20, in the unit of time.time()
timeout == 20

\* time.sleep(0.5) is one tick
TicksPerUnit == 2

\* subprocess.run([ts_path, "status", "-json"], timeout=5), in ticks
StatusTimeout == 5 * TicksPerUnit

\* subprocess.run(["dig", ...], timeout=2), in ticks
DigTimeout == 2 * TicksPerUnit

\* what the detection leaves in magic_dns_suffix
Suffixes == {NoSuffix, "ts.net"}

\* how a query of the resolver ends: exit 0 with an answer, exit 0 with
\* empty output, another exit code, or one of the exceptions the loop catches
DigOutcomes == {"answer", "empty", "exit 1", "TimeoutExpired", "FileNotFoundError"}

\* a slip: every suffix, the missing one too, goes on to the resolver
SuffixKnown_Always(suffix) == TRUE

\* the negation of `if not magic_dns_suffix`
SuffixKnown(suffix) == suffix # NoSuffix

\* a slip: the output of dig is not looked at
Resolved_AnyExit0(outcome) == outcome \in {"answer", "empty"}

\* if result.returncode == 0 and result.stdout.strip()
Resolved(outcome) == outcome = "answer"

\* while time.time() - start_time < timeout
WindowOpen(ticks) == ticks < timeout * TicksPerUnit

\* target_url = f"http://{full_hostname}:8001/" with
\* full_hostname = f"{args.slug}.{magic_dns_suffix}"
target_url(n, suffix) == << "http://" >> \o n \o << ".", suffix, ":8001/" >>

\* send_response(status), the Location header and the body written
GateResponse(status, location, body) ==
    [status |-> status, location |-> location, body |-> body]

\* the process of the controller has ended: outside_mode returned, the
\* handler called sys.exit, or KeyboardInterrupt was not caught
ProcessEnded(pc) == pc \in {"exited", "stopped", "interrupted"}

\* do_GET up to the loop: start_time is read, the suffix is detected, and
\* without a suffix the request is answered 500
RedirectHandler_do_GET(s) ==
    /\ gate[s] = "listening"
    /\ \E suffix \in Suffixes, spent \in 0..StatusTimeout :
         /\ magic_dns_suffix' = [magic_dns_suffix EXCEPT ![s] = suffix]
         /\ elapsed' = [elapsed EXCEPT ![s] = spent]
         /\ IF SuffixKnown(suffix)
            THEN /\ gate' = [gate EXCEPT ![s] = "polling"]
                 /\ UNCHANGED sent
            ELSE /\ gate' = [gate EXCEPT ![s] = "done"]
                 /\ sent' = [sent EXCEPT ![s] =
                        Append(@, GateResponse(500, << >>, "Error"))]
    /\ UNCHANGED << attempt, dig_result >>
    /\ UNCHANGED << registry, repoVars, additional_panes, allocVars,
                    outsideVars, insideVars, dashVars, inputVars >>

\* one turn of the while loop (the window test, one query of the resolver,
\* the sleep), or the response after the loop
RedirectHandler_poll(s) ==
    /\ gate[s] = "polling"
    /\ IF WindowOpen(elapsed[s])
       THEN \E outcome \in DigOutcomes, spent \in 0..DigTimeout :
              /\ (outcome = "TimeoutExpired") <=> (spent = DigTimeout)
              /\ attempt' = [attempt EXCEPT ![s] = @ + 1]
              /\ dig_result' = [dig_result EXCEPT ![s] = outcome]
              /\ IF Resolved(outcome)
                 THEN /\ elapsed' = [elapsed EXCEPT ![s] = @ + spent]
                      /\ gate' = [gate EXCEPT ![s] = "done"]
                      /\ sent' = [sent EXCEPT ![s] =
                             Append(@, GateResponse(302,
                                 target_url(slug[s], magic_dns_suffix[s]), ""))]
                 ELSE /\ elapsed' = [elapsed EXCEPT ![s] = @ + spent + 1]
                      /\ UNCHANGED << gate, sent >>
       ELSE /\ gate' = [gate EXCEPT ![s] = "done"]
            /\ sent' = [sent EXCEPT ![s] =
                   Append(@, GateResponse(504, << >>, "Timeout"))]
            /\ UNCHANGED << attempt, dig_result, elapsed >>
    /\ UNCHANGED magic_dns_suffix
    /\ UNCHANGED << registry, repoVars, additional_panes, allocVars,
                    outsideVars, insideVars, dashVars, inputVars >>

\* server_thread is a daemon thread: it ends with the process, whatever the
\* handler is doing
server_thread_dies(s) ==
    /\ ProcessEnded(opc[s])
    /\ gate[s] \in {"listening", "polling"}
    /\ gate' = [gate EXCEPT ![s] = "dead"]
    /\ UNCHANGED << elapsed, attempt, magic_dns_suffix, dig_result, sent >>
    /\ UNCHANGED << registry, repoVars, additional_panes, allocVars,
                    outsideVars, insideVars, dashVars, inputVars >>

(***************************************************************************)
(* inside_mode: the sandbox side.                                          *)
(***************************************************************************)
\* the arguments main() declares for the "inside" parser: the attributes args has
InsideArgs == {"mode", "git_dir", "committish", "prefix", "agent_cmd", "slug",
               "magic_dns_suffix"}

HasAttr(a) == a \in InsideArgs

Worktree(n, s) == [slug |-> n, owner |-> s]

\* a slip: git worktree add -f -B, which resets an existing branch and takes
\* over a registered directory
WorktreeAddSucceeds_Force(rc, n) == rc = 0

\* git worktree add <dir> -b <slug> <committish>: git refuses an existing branch
\* name and a directory that is already a registered worktree
WorktreeAddSucceeds(rc, n) ==
    /\ rc = 0
    /\ branches[n] = NoCommit
    /\ ~\E w \in worktrees : w.slug = n

\* chown, os.mkdir, git worktree add (check=True), the symlink, the chdirs
inside_mode_worktree(s) ==
    /\ ipc[s] = "INIT"
    /\ \E rc \in ReturnCodes :
         IF WorktreeAddSucceeds(rc, slug[s])
         THEN /\ branches' = [branches EXCEPT ![slug[s]] = committish[s]]
              /\ worktrees' = worktrees \cup { Worktree(slug[s], s) }
              /\ ipc' = [ipc EXCEPT ![s] = "WORKTREE_READY"]
              /\ UNCHANGED registry
         ELSE /\ ipc' = [ipc EXCEPT ![s] = "ABORTED"]
              /\ registry' = ContainerExit(registry, s, open_browser[s])
              /\ UNCHANGED repoVars
    /\ UNCHANGED << additional_panes, allocVars, outsideVars, panes, dirty,
                    git_status, current_commit, cleanup, dashVars, gateVars, inputVars >>

\* the tmux session: with auxiliary panes every tmux call is check=True, without
\* them the one new-session call is check=False
inside_mode_panes(s) ==
    /\ ipc[s] = "WORKTREE_READY"
    /\ \E created \in 0..(additional_panes + 1) :
         \* created: the windows that exist when tmux fails (or all of them)
         IF additional_panes > 0 /\ created < additional_panes + 1
         THEN /\ panes' = [panes EXCEPT ![s] = created]
              /\ ipc' = [ipc EXCEPT ![s] = "ABORTED"]
              /\ registry' = ContainerExit(registry, s, open_browser[s])
         ELSE /\ panes' = [panes EXCEPT ![s] = created]
              /\ ipc' = [ipc EXCEPT ![s] = "PANES_READY"]
              /\ UNCHANGED registry
    /\ UNCHANGED << repoVars, additional_panes, allocVars, outsideVars,
                    dirty, git_status, current_commit, cleanup, dashVars, gateVars, inputVars >>

\* subprocess.run(["sleep", "infinity"]) starts: the controller idles
inside_mode_wait(s) ==
    /\ ipc[s] = "PANES_READY"
    /\ ipc' = [ipc EXCEPT ![s] = "RUNNING"]
    /\ UNCHANGED << registry, repoVars, additional_panes, allocVars,
                    outsideVars, panes, dirty, git_status, current_commit,
                    cleanup, dashVars, gateVars, inputVars >>

\* the agent (or the operator) changes files of the worktree
agent_edit(s) ==
    /\ ipc[s] = "RUNNING"
    /\ ~dirty[s]
    /\ dirty' = [dirty EXCEPT ![s] = TRUE]
    /\ UNCHANGED << registry, repoVars, additional_panes, allocVars,
                    outsideVars, ipc, panes, git_status, current_commit,
                    cleanup, dashVars, gateVars, inputVars >>

\* the agent commits its changes on the slug-named branch
agent_commit(s) ==
    /\ ipc[s] = "RUNNING"
    /\ dirty[s]
    /\ branches[slug[s]] < committish[s] + MaxCommits
    /\ branches' = [branches EXCEPT ![slug[s]] = @ + 1]
    /\ dirty' = [dirty EXCEPT ![s] = FALSE]
    /\ UNCHANGED << registry, worktrees, additional_panes, allocVars,
                    outsideVars, ipc, panes, git_status, current_commit,
                    cleanup, dashVars, gateVars, inputVars >>

\* the blocking wait ends: sleep returns or KeyboardInterrupt is caught
session_end(s) ==
    /\ ipc[s] = "RUNNING"
    /\ ipc' = [ipc EXCEPT ![s] = "RECONCILING"]
    /\ UNCHANGED << registry, repoVars, additional_panes, allocVars,
                    outsideVars, panes, dirty, git_status, current_commit,
                    cleanup, dashVars, gateVars, inputVars >>

\* if git_status.returncode == 0 and git_status.stdout.strip()
WorkspaceDirty(rc, stdoutNonEmpty) == rc = 0 /\ stdoutNonEmpty

\* a slip: the comparison with the original committish is inverted
BranchUnchanged_Inverted(rc, stdout, original) == rc = 0 /\ stdout # original

\* a slip: "or" for "and", so a failed tip query counts as an unmoved branch
BranchUnchanged_OnFailure(rc, stdout, original) == rc # 0 \/ stdout = original

\* if current_commit.returncode == 0 and current_commit.stdout.strip() == args.committish
BranchUnchanged(rc, stdout, original) == rc = 0 /\ stdout = original

\* everything after the wait: status, auto-commit, tip comparison, cleanup
inside_mode_reconcile(s) ==
    /\ ipc[s] = "RECONCILING"
    /\ \E statusRc \in ReturnCodes, commitRc \in ReturnCodes,
          tipRc \in ReturnCodes, rmRc \in ReturnCodes, delRc \in ReturnCodes :
         LET n == slug[s]
             commits == WorkspaceDirty(statusRc, dirty[s])
         IN /\ git_status' = [git_status EXCEPT ![s] = statusRc]
            /\ IF commits /\ ~HasAttr("agent")
               THEN \* git add -A has run; building commit_msg raises AttributeError
                    /\ ipc' = [ipc EXCEPT ![s] = "CRASHED"]
                    /\ UNCHANGED << repoVars, dirty, current_commit, cleanup >>
               ELSE LET committed == commits /\ commitRc = 0
                        tip == IF committed THEN branches[n] + 1 ELSE branches[n]
                        \* a failing rev-parse prints no commit hash
                        stdout == IF tipRc = 0 THEN tip ELSE NoCommit
                        cleans == BranchUnchanged(tipRc, stdout, committish[s])
                        removed == cleans /\ rmRc = 0
                        \* git refuses to delete a branch a worktree has checked out
                        delCode == IF removed THEN delRc ELSE 1
                        deleted == cleans /\ delCode = 0
                    IN /\ ipc' = [ipc EXCEPT ![s] = "TERMINAL"]
                       /\ current_commit' = [current_commit EXCEPT ![s] = tipRc]
                       /\ cleanup' = [cleanup EXCEPT ![s] =
                             IF cleans THEN << rmRc, delCode >> ELSE NotRun]
                       /\ worktrees' = IF removed
                                       THEN { w \in worktrees : w.slug # n }
                                       ELSE worktrees
                       /\ branches' = [branches EXCEPT ![n] =
                             IF deleted THEN NoCommit ELSE tip]
                       /\ dirty' = [dirty EXCEPT ![s] =
                             IF committed \/ removed THEN FALSE ELSE @]
    /\ registry' = ContainerExit(registry, s, open_browser[s])
    /\ UNCHANGED << additional_panes, allocVars, outsideVars, panes, dashVars, gateVars, inputVars >>

(***************************************************************************)
(* The environment of the allocator: other containers come and go.         *)
(***************************************************************************)
docker_external(n) ==
    /\ registry' = IF Container(n, 0, TRUE) \in registry
                   THEN registry \ { Container(n, 0, TRUE) }
                   ELSE IF NameTaken(registry, n) THEN registry
                   ELSE registry \cup { Container(n, 0, TRUE) }
    /\ registry' # registry
    /\ UNCHANGED << repoVars, additional_panes, allocVars, outsideVars,
                    insideVars, dashVars, gateVars, inputVars >>

(***************************************************************************)
(* meta.py: the dashboard state tracker.                                   *)
(***************************************************************************)
\* how far the clock is followed
MaxTime == 4

\* connections the exploration lets wait in the listen queue
MaxBacklog == 2

\* containers the docker daemon may be running while the dashboard is up
ContainerIds == {1, 2, 3}

Idle == "idle"
\* send_response(status), the Content-type header and the body written, for
\* the request of path
Response(path, status, content_type, body) ==
    [path |-> path, status |-> status, content_type |-> content_type,
     body |-> body]

\* nothing has been sent on the connection yet
NoResponse == Response("", 0, "", << >>)

NotFound == "404"
NoPort == "None"

\* what a terminal pane may show; MD5 maps unboundedly many texts to 128
\* bits, so some texts share a digest: "collA" and "collB" stand for such a pair
FirstText == "$"
PaneTexts == {"$", "collA", "collB"}
EmptyText == ""
ErrorText == "Error capturing pane: timed out"

\* hashlib.md5(pane_content.encode()).hexdigest()
Md5(text) ==
    CASE text = EmptyText -> "d41d8cd9"
      [] text = "$" -> "c3e97dd6"
      [] text = "collA" -> "79054025"
      [] text = "collB" -> "79054025"
      [] text = ErrorText -> "5f2b9323"

\* one JSON line of docker ps: container.get('ID'), container.get('Names')
DockerPsLine(id) == [ID |-> id, Names |-> << "ctr", id >>]

\* the ids of S in the order docker ps lists them
RECURSIVE Listing(_)
Listing(S) ==
    IF S = {} THEN << >>
    ELSE LET first == CHOOSE id \in S : \A other \in S : id <= other
         IN << DockerPsLine(first) >> \o Listing(S \ {first})

\* how a docker command run with a timeout ends
Outcomes == {"exit 0", "exit 1", "TimeoutExpired"}

\* a slip: the probe is not guarded, so a probe that times out raises into the
\* handler around the whole listing, which returns no container at all
get_ctr_agent_containers_Unguarded(ps_result, check_result) ==
    IF ps_result # "exit 0" \/ \E id \in DOMAIN check_result :
                                check_result[id] = "TimeoutExpired"
    THEN << >>
    ELSE Listing({ id \in DOMAIN check_result : check_result[id] = "exit 0" })

\* get_ctr_agent_containers: docker ps fails (no candidates), or every listed
\* container is probed and the ones whose probe fails or times out are left out
get_ctr_agent_containers(ps_result, check_result) ==
    IF ps_result # "exit 0"
    THEN << >>
    ELSE Listing({ id \in DOMAIN check_result : check_result[id] = "exit 0" })

\* docker port <id> 8001: only the first container publishes the port
get_yatty_port(container_id) ==
    IF container_id \in docker_ps /\ container_id = 1 THEN 32768 ELSE NoPort

\* capture_tmux_pane: stdout on exit 0, "" on another exit code, the error
\* string on an exception (a timeout)
capture_tmux_pane(container_id) ==
    IF container_id \in docker_ps
    THEN { pane_text[container_id], EmptyText, ErrorText }
    ELSE { EmptyText, ErrorText }

ContainerState(id, name, content, hash, time, port) ==
    [container_id |-> id, name |-> name, pane_content |-> content,
     content_hash |-> hash, last_change_time |-> time, yatty_port |-> port]

\* container_id in container_states
Tracked(states, id) == \E k \in DOMAIN states : states[k].container_id = id

StateOf(states, id) ==
    states[CHOOSE k \in DOMAIN states : states[k].container_id = id]

\* a slip: the comparison never reports a change
ContentChanged_Never(state, content_hash) == FALSE

\* a slip: every visit counts as a change
ContentChanged_Always(state, content_hash) == TRUE

\* if state.content_hash != content_hash
ContentChanged(state, content_hash) == state.content_hash # content_hash

\* a slip: content and timestamp are replaced, the fingerprint is not
Refreshed_KeepsHash(state, name, pane_content, content_hash, yatty_port, time) ==
    IF ContentChanged(state, content_hash)
    THEN ContainerState(state.container_id, name, pane_content,
                        state.content_hash, time, yatty_port)
    ELSE ContainerState(state.container_id, name, state.pane_content,
                        state.content_hash, state.last_change_time, yatty_port)

\* a slip: the timestamp is written outside the "if", on every visit
Refreshed_TouchesTime(state, name, pane_content, content_hash, yatty_port, time) ==
    IF ContentChanged(state, content_hash)
    THEN ContainerState(state.container_id, name, pane_content, content_hash,
                        time, yatty_port)
    ELSE ContainerState(state.container_id, name, state.pane_content,
                        state.content_hash, time, yatty_port)

\* the branch of update_container_states for a container already tracked
Refreshed(state, name, pane_content, content_hash, yatty_port, time) ==
    IF ContentChanged(state, content_hash)
    THEN ContainerState(state.container_id, name, pane_content, content_hash,
                        time, yatty_port)
    ELSE ContainerState(state.container_id, name, state.pane_content,
                        state.content_hash, state.last_change_time, yatty_port)

Paths == {"/", "/index.html", "/api/containers", "/favicon.ico"}

\* a slip: only the API is told apart, every other path gets the page
Route_PageByDefault(path) ==
    IF path = "/api/containers" THEN "application/json"
    ELSE "text/html; charset=utf-8"

\* the if / elif / else of do_GET on self.path, by the Content-type it sends
Route(path) ==
    IF path = "/" \/ path = "/index.html" THEN "text/html; charset=utf-8"
    ELSE IF path = "/api/containers" THEN "application/json"
    ELSE NotFound

\* a slip: the refresh is hoisted above the if on self.path
Refreshes_EveryBranch(path) == TRUE

\* the branches of do_GET that call get_ctr_agent_containers and
\* update_container_states: the two that render a view
Refreshes(path) == Route(path) # NotFound

\* the paths whose branch refreshes the container states
PollPaths == { path \in Paths : Refreshes(path) }

\* a slip: reverse=True is left out, the oldest change comes first
InsertByRecency_Ascending(st, sorted) ==
    LET n == Cardinality({ i \in DOMAIN sorted :
                 sorted[i].last_change_time <= st.last_change_time })
    IN SubSeq(sorted, 1, n) \o << st >> \o SubSeq(sorted, n + 1, Len(sorted))

\* sorted(container_states.values(), key=last_change_time, reverse=True):
\* stable, so states with equal times keep their insertion order
InsertByRecency(st, sorted) ==
    LET n == Cardinality({ i \in DOMAIN sorted :
                 sorted[i].last_change_time >= st.last_change_time })
    IN SubSeq(sorted, 1, n) \o << st >> \o SubSeq(sorted, n + 1, Len(sorted))

RECURSIVE SortedByRecency(_)
SortedByRecency(states) ==
    IF states = << >> THEN << >>
    ELSE InsertByRecency(states[Len(states)],
                         SortedByRecency(SubSeq(states, 1, Len(states) - 1)))

\* s.pane_content[:500]: every text of the model is shorter than 500 characters
Truncated(text) == text

\* the tiles of generate_html, or the array of /api/containers
Render(path, states) ==
    LET sorted == SortedByRecency(states)
    IN IF Route(path) = "application/json"
       THEN [ i \in DOMAIN sorted |->
                [id |-> sorted[i].container_id, name |-> sorted[i].name,
                 lastChange |-> sorted[i].last_change_time,
                 yattyPort |-> sorted[i].yatty_port,
                 content |-> Truncated(sorted[i].pane_content)] ]
       ELSE [ i \in DOMAIN sorted |->
                [name |-> sorted[i].name,
                 content |-> sorted[i].pane_content] ]

\* a slip: a threading server, which hands a connection to a new handler
\* while another handler is still running
ServerIdle_Threading == TRUE

\* HTTPServer.serve_forever handles one request at a time: the next connection
\* is accepted when the handler of the one before has returned
ServerIdle == request = Idle

\* a request arrives while the server is busy and waits in the listen queue
client_connect ==
    /\ ~ServerIdle
    /\ backlog < MaxBacklog
    /\ backlog' = backlog + 1
    /\ UNCHANGED << container_states, now, docker_ps, pane_text, request,
                    pending, current_ids, captured, response, check_results >>
    /\ UNCHANGED << registry, repoVars, additional_panes, allocVars,
                    outsideVars, insideVars, gateVars,
                    inputVars >>

\* DashboardHandler.do_GET up to the call of update_container_states, for the
\* oldest waiting connection or for one that arrives now; any other path is
\* answered 404 at once
do_GET(path) ==
    /\ ServerIdle
    /\ backlog' = IF backlog > 0 THEN backlog - 1 ELSE 0
    /\ IF Refreshes(path)
       THEN /\ \/ \E check_result \in [docker_ps -> Outcomes] :
                    /\ pending' = get_ctr_agent_containers("exit 0", check_result)
                    /\ check_results' =
                           [ id \in docker_ps |-> check_result[id] = "exit 0" ]
               \/ \E ps_result \in Outcomes \ {"exit 0"} :
                    /\ pending' = get_ctr_agent_containers(ps_result, << >>)
                    /\ check_results' = << >>
            /\ request' = path
            /\ response' = NoResponse
       ELSE /\ response' = Response(path, 404, "", << >>)
            /\ UNCHANGED << request, pending, check_results >>
    /\ current_ids' = {}
    /\ UNCHANGED << container_states, now, docker_ps, pane_text, captured >>
    /\ UNCHANGED << registry, repoVars, additional_panes, allocVars,
                    outsideVars, insideVars, gateVars,
                    inputVars >>

\* time.time() as update_container_states reads it: docker commands run
\* between any two reads, so a read returns more than the read before it
time_time == now + 1

\* update_container_states: one iteration of the loop over containers
update_container_states ==
    /\ request \in PollPaths
    /\ pending # << >>
    /\ LET container == Head(pending)
           container_id == container.ID
           name == container.Names
       IN \E pane_content \in capture_tmux_pane(container_id) :
            LET content_hash == Md5(pane_content)
                yatty_port == get_yatty_port(container_id)
                state == StateOf(container_states, container_id)
            IN /\ IF Tracked(container_states, container_id)
                  THEN /\ container_states' =
                            [ k \in DOMAIN container_states |->
                                IF container_states[k].container_id = container_id
                                THEN Refreshed(container_states[k], name,
                                         pane_content, content_hash, yatty_port,
                                         time_time)
                                ELSE container_states[k] ]
                       /\ IF ContentChanged(state, content_hash)
                          THEN now < MaxTime /\ now' = time_time
                          ELSE now' = now
                  ELSE /\ container_states' =
                            Append(container_states,
                                ContainerState(container_id, name, pane_content,
                                               content_hash, time_time, yatty_port))
                       /\ now < MaxTime
                       /\ now' = time_time
               /\ current_ids' = current_ids \cup { container_id }
               /\ captured' = (container_id :> pane_content) @@ captured
    /\ pending' = Tail(pending)
    /\ UNCHANGED << docker_ps, pane_text, request, response, check_results,
                    backlog >>
    /\ UNCHANGED << registry, repoVars, additional_panes, allocVars,
                    outsideVars, insideVars, gateVars,
                    inputVars >>

\* a slip: the loop that removes absent containers is left out
RemoveAbsent_Nothing(states, ids) == states

\* for container_id in list(container_states.keys()):
\*     if container_id not in current_ids: del container_states[container_id]
RemoveAbsent(states, ids) ==
    LET Present(st) == st.container_id \in ids
    IN SelectSeq(states, Present)

\* the end of update_container_states (tracked ids not visited are dropped)
\* and the rest of do_GET: the view is rendered and sent
do_GET_respond ==
    /\ request \in PollPaths
    /\ pending = << >>
    /\ LET kept == RemoveAbsent(container_states, current_ids)
       IN /\ container_states' = kept
          /\ response' = Response(request, 200, Route(request),
                                   Render(request, kept))
    /\ captured' = [ id \in DOMAIN captured \cap current_ids |-> captured[id] ]
    /\ request' = Idle
    /\ current_ids' = {}
    /\ check_results' = << >>
    /\ UNCHANGED << now, docker_ps, pane_text, pending, backlog >>
    /\ UNCHANGED << registry, repoVars, additional_panes, allocVars,
                    outsideVars, insideVars, gateVars,
                    inputVars >>

\* the environment of the dashboard
container_start(id) ==
    /\ id \notin docker_ps
    /\ docker_ps' = docker_ps \cup { id }
    /\ pane_text' = [pane_text EXCEPT ![id] = FirstText]
    /\ UNCHANGED << container_states, now, request, pending, current_ids,
                    captured, response, check_results, backlog >>
    /\ UNCHANGED << registry, repoVars, additional_panes, allocVars,
                    outsideVars, insideVars, gateVars,
                    inputVars >>

container_stop(id) ==
    /\ id \in docker_ps
    /\ docker_ps' = docker_ps \ { id }
    /\ pane_text' = [pane_text EXCEPT ![id] = FirstText]
    /\ UNCHANGED << container_states, now, request, pending,
                    current_ids, captured, response, check_results, backlog >>
    /\ UNCHANGED << registry, repoVars, additional_panes, allocVars,
                    outsideVars, insideVars, gateVars,
                    inputVars >>

pane_output(id, text) ==
    /\ id \in docker_ps
    /\ text # pane_text[id]
    /\ pane_text' = [pane_text EXCEPT ![id] = text]
    /\ UNCHANGED << container_states, now, docker_ps, request, pending,
                    current_ids, captured, response, check_results, backlog >>
    /\ UNCHANGED << registry, repoVars, additional_panes, allocVars,
                    outsideVars, insideVars, gateVars,
                    inputVars >>

\* docker stop <slug>, by the operator or by the controller's interrupt
\* handler: the sandbox process is killed where it stands
docker_stop(s) ==
    /\ IsRunning(registry, s)
    /\ registry' = ContainerExit(registry, s, open_browser[s])
    /\ ipc' = [ipc EXCEPT ![s] = "KILLED"]
    /\ UNCHANGED << repoVars, additional_panes, allocVars, outsideVars,
                    panes, dirty, git_status, current_commit, cleanup,
                    dashVars, gateVars, inputVars >>

(***************************************************************************)
(* Initial states.                                                         *)
(***************************************************************************)
\* container_states = {} and no request being served
TrackerFresh ==
    /\ container_states = << >>
    /\ now = 0
    /\ request = Idle
    /\ pending = << >>
    /\ current_ids = {}
    /\ captured = << >>
    /\ response = NoResponse
    /\ check_results = << >>
    /\ backlog = 0

DashIdle ==
    /\ TrackerFresh
    /\ docker_ps = {}
    /\ pane_text = [id \in ContainerIds |-> FirstText]

\* no server thread has been started
GateFresh ==
    /\ gate = [s \in Sessions |-> "none"]
    /\ elapsed = [s \in Sessions |-> 0]
    /\ attempt = [s \in Sessions |-> 0]
    /\ magic_dns_suffix = [s \in Sessions |-> NoSuffix]
    /\ dig_result = [s \in Sessions |-> NotRun]
    /\ sent = [s \in Sessions |-> << >>]

\* the configuration documents, outside the runs that merge them
ConfigUnread ==
    /\ base_config = NoDocument
    /\ overlay_config = NoDocument
    /\ config = NoDocument

BashAgent == agent = [s \in Sessions |-> "bash"]

\* a repository without slug-named branches or worktrees
RepoFresh ==
    /\ branches = [n \in Slugs |-> NoCommit]
    /\ worktrees = {}

\* no controller has drawn a slug, no sandbox exists, no server thread runs
ControllersFresh ==
    /\ draws = [s \in Sessions |-> 0]
    /\ slug = [s \in Sessions |-> NoSlug]
    /\ result = [s \in Sessions |-> NotRun]
    /\ committish = [s \in Sessions |-> NoCommit]
    /\ ipc = [s \in Sessions |-> "none"]
    /\ panes = [s \in Sessions |-> 0]
    /\ dirty = [s \in Sessions |-> FALSE]
    /\ git_status = [s \in Sessions |-> NotRun]
    /\ current_commit = [s \in Sessions |-> NotRun]
    /\ cleanup = [s \in Sessions |-> NotRun]
    /\ GateFresh

ProcessesFresh ==
    /\ ControllersFresh
    /\ ConfigUnread

SessionsFresh ==
    /\ RepoFresh
    /\ ProcessesFresh

\* one controller is started: main() has parsed the arguments and calls
\* outside_mode, whose first statement is the allocator
Init ==
    /\ registry \in SUBSET ExternalContainers
    /\ additional_panes \in 0..MaxPanes
    /\ open_browser \in [Sessions -> BOOLEAN]
    /\ opc = [s \in Sessions |-> IF s = 1 THEN "alloc" ELSE "idle"]
    /\ \E key \in AgentKeys :
          agent = [s \in Sessions |-> IF s = 1 THEN key ELSE "bash"]
    /\ SessionsFresh
    /\ DashIdle

Lifecycle(s) ==
    \/ draws[s] < MaxDrawsExplored /\ generate_random_slug(s)
    \/ outside_mode_prepare(s)
    \/ outside_mode_launch(s)
    \/ signal_signal(s)
    \/ outside_mode_wait(s)
    \/ inside_mode_worktree(s)
    \/ inside_mode_panes(s)
    \/ inside_mode_wait(s)
    \/ agent_edit(s)
    \/ agent_commit(s)
    \/ session_end(s)
    \/ inside_mode_reconcile(s)

Next == Lifecycle(1)

Spec == Init /\ [][Next]_vars

(***************************************************************************)
(* Several controllers started against the same registry and repository.   *)
(***************************************************************************)
InitRace ==
    /\ registry \in SUBSET ExternalContainers
    /\ additional_panes = 0
    /\ open_browser \in [Sessions -> BOOLEAN]
    /\ opc = [s \in Sessions |-> "alloc"]
    /\ BashAgent
    /\ SessionsFresh
    /\ DashIdle

NextRace ==
    \E s \in Sessions :
        \/ draws[s] < MaxDrawsExplored /\ generate_random_slug(s)
        \/ outside_mode_prepare(s)
        \/ outside_mode_launch(s)
        \/ signal_signal(s)
        \/ outside_mode_wait(s)
        \/ inside_mode_worktree(s)
        \/ docker_stop(s)

SpecRace == InitRace /\ [][NextRace]_vars

(***************************************************************************)
(* The allocator alone, with its full budget of draws, against a registry  *)
(* that changes under it.                                                  *)
(***************************************************************************)
InitAlloc ==
    /\ registry \in SUBSET ExternalContainers
    /\ additional_panes = 0
    /\ open_browser = [s \in Sessions |-> TRUE]
    /\ opc = [s \in Sessions |-> IF s = 1 THEN "alloc" ELSE "idle"]
    /\ BashAgent
    /\ SessionsFresh
    /\ DashIdle

NextAlloc ==
    \/ generate_random_slug(1)
    \/ \E n \in Slugs : docker_external(n)

SpecAlloc == InitAlloc /\ [][NextAlloc]_vars

(***************************************************************************)
(* The dashboard: requests served one at a time (HTTPServer), the          *)
(* containers and the clock moving under it.                               *)
(***************************************************************************)
SessionsIdle ==
    /\ registry = {}
    /\ additional_panes = 0
    /\ open_browser = [s \in Sessions |-> TRUE]
    /\ opc = [s \in Sessions |-> "idle"]
    /\ BashAgent
    /\ SessionsFresh

InitDash ==
    /\ SessionsIdle
    /\ DashIdle

\* the dashboard with two containers that come and go
NextDash ==
    \/ \E path \in Paths : do_GET(path)
    \/ update_container_states
    \/ do_GET_respond
    \/ \E id \in {1, 2} : container_start(id)
    \/ \E id \in {1, 2} : container_stop(id)
    \/ \E id \in {1, 2}, text \in PaneTexts : pane_output(id, text)

SpecDash == InitDash /\ [][NextDash]_vars

\* the dashboard with three containers that keep running and print; the
\* pane of the first shows "collB" when the dashboard is started
InitView ==
    /\ SessionsIdle
    /\ TrackerFresh
    /\ docker_ps = ContainerIds
    /\ pane_text = [id \in ContainerIds |-> IF id = 1 THEN "collB" ELSE FirstText]

NextView ==
    \/ \E path \in {"/", "/api/containers"} : do_GET(path)
    \/ update_container_states
    \/ do_GET_respond
    \/ \E id \in {1, 2} : pane_output(id, "collA")

SpecView == InitView /\ [][NextView]_vars

\* the dashboard with two running containers and requests that queue up
InitServe ==
    /\ SessionsIdle
    /\ TrackerFresh
    /\ docker_ps = {1, 2}
    /\ pane_text = [id \in ContainerIds |-> FirstText]

NextServe ==
    \/ \E path \in Paths : do_GET(path)
    \/ update_container_states
    \/ do_GET_respond
    \/ client_connect
    \/ \E id \in {1, 2} : pane_output(id, "collA")

SpecServe == InitServe /\ [][NextServe]_vars

(***************************************************************************)
(* A detached launch with its redirect server: the controller, the browser *)
(* request and the resolver, with a sandbox that is slow to start.         *)
(***************************************************************************)
InitGate ==
    /\ registry = {}
    /\ additional_panes = 0
    /\ open_browser = [s \in Sessions |-> TRUE]
    /\ opc = [s \in Sessions |-> IF s = 1 THEN "alloc" ELSE "idle"]
    /\ BashAgent
    /\ SessionsFresh
    /\ DashIdle

NextGate ==
    \/ draws[1] < MaxDrawsExplored /\ generate_random_slug(1)
    \/ outside_mode_prepare(1)
    \/ outside_mode_launch(1)
    \/ signal_signal(1)
    \/ outside_mode_wait(1)
    \/ interrupt(1)
    \/ docker_stop(1)
    \/ RedirectHandler_do_GET(1)
    \/ RedirectHandler_poll(1)
    \/ server_thread_dies(1)

SpecGate == InitGate /\ [][NextGate]_vars

\* the server thread runs while the process lives: the handler is entered
\* once the browser has connected, and every turn of its loop is bounded by
\* the timeout of dig and the sleep
SpecGateLive ==
    /\ SpecGate
    /\ WF_vars(RedirectHandler_do_GET(1))
    /\ WF_vars(RedirectHandler_poll(1))

(***************************************************************************)
(* load_config on a pair of documents.                                     *)
(***************************************************************************)
InitMerge ==
    /\ registry = {}
    /\ additional_panes = 0
    /\ open_browser = [s \in Sessions |-> TRUE]
    /\ opc = [s \in Sessions |-> "idle"]
    /\ BashAgent
    /\ RepoFresh
    /\ ControllersFresh
    /\ DashIdle
    /\ base_config \in Documents
    /\ overlay_config \in Documents
    /\ config = NoDocument

NextMerge == load_config

SpecMerge == InitMerge /\ [][NextMerge]_vars

(***************************************************************************)
(* One session in a repository that may hold slug-named branches and       *)
(* worktrees kept from earlier sessions (owner 0).                         *)
(***************************************************************************)
InitConflict ==
    /\ registry = {}
    /\ additional_panes \in 0..MaxPanes
    /\ open_browser \in [Sessions -> BOOLEAN]
    /\ opc = [s \in Sessions |-> IF s = 1 THEN "alloc" ELSE "idle"]
    /\ BashAgent
    /\ branches \in [Slugs -> {NoCommit, HostHead}]
    /\ worktrees \in SUBSET { Worktree(n, 0) : n \in Slugs }
    /\ \A w \in worktrees : branches[w.slug] # NoCommit
    /\ ProcessesFresh
    /\ DashIdle

SpecConflict == InitConflict /\ [][Next]_vars

(***************************************************************************)
(* One session and the signals that reach it: SIGINT to the controller,    *)
(* docker stop by the operator, the operator detaching.  A sandbox whose   *)
(* wait has ended goes on with its reconciliation unless it is killed.     *)
(***************************************************************************)
NextSignal ==
    \/ Lifecycle(1)
    \/ interrupt(1)
    \/ docker_stop(1)
    \/ detach(1)

SpecSignal ==
    Init /\ [][NextSignal]_vars /\ WF_vars(inside_mode_reconcile(1))

(***************************************************************************)
(* Exit-time reconciliation (inside_mode after the wait).                  *)
(***************************************************************************)
HasWorktree(wts, n) == \E w \in wts : w.slug = n
HasBranch(brs, n) == brs[n] # NoCommit

\* the step in which the sandbox of s runs its reconciliation
ReconcileStep(s) ==
    /\ ipc[s] = "RECONCILING"
    /\ ipc'[s] \in {"TERMINAL", "CRASHED"}

\* worktree and branch of s are both still there after the step
KeptAfter(s) ==
    /\ HasWorktree(worktrees', slug[s])
    /\ HasBranch(branches', slug[s])

\* C1 (as claimed): whenever the working tree has modified or untracked
\* content at session end, reconciliation deletes neither the worktree nor the
\* slug-named branch.
C1_DirtyIsNeverDeleted ==
    [][ \A s \in Sessions : (ReconcileStep(s) /\ dirty[s]) => KeptAfter(s) ]_vars

\* C2 (as claimed): whenever the working tree is dirty at session end,
\* reconciliation creates exactly one commit on the slug-named branch, so the
\* tip after reconciliation differs from the original committish.
C2_DirtyIsCommitted ==
    [][ \A s \in Sessions :
          (ReconcileStep(s) /\ dirty[s]) =>
              /\ branches'[slug[s]] = branches[slug[s]] + 1
              /\ branches'[slug[s]] # committish[s] ]_vars

CleanAndUnmoved(s) == ~dirty[s] /\ branches[slug[s]] = committish[s]

\* C3 (as claimed): if at session end the working tree is clean and the tip
\* of the slug-named branch equals the original committish, reconciliation
\* removes the worktree and deletes the branch.
C3_CleanIsRemoved ==
    [][ \A s \in Sessions :
          (ReconcileStep(s) /\ CleanAndUnmoved(s)) =>
              /\ ~HasWorktree(worktrees', slug[s])
              /\ ~HasBranch(branches', slug[s]) ]_vars

\* C3 (amended): if at session end the working tree is clean and the tip
\* equals the original committish, and the tip query succeeds, reconciliation
\* runs the worktree removal and the branch deletion; the worktree is gone
\* when the removal succeeds and the branch is gone when the deletion succeeds.
C3_CleanIsRemovedBestEffort ==
    [][ \A s \in Sessions :
          (ReconcileStep(s) /\ CleanAndUnmoved(s) /\ current_commit'[s] = 0) =>
              /\ cleanup'[s] # NotRun
              /\ cleanup'[s][1] = 0 => ~HasWorktree(worktrees', slug[s])
              /\ cleanup'[s][2] = 0 => ~HasBranch(branches', slug[s]) ]_vars

\* a clean, commit-free session whose worktree and branch were removed
C3_Witness ==
    \E s \in Sessions :
        /\ ipc[s] = "TERMINAL"
        /\ current_commit[s] = 0
        /\ cleanup[s] = << 0, 0 >>
        /\ ~HasWorktree(worktrees, slug[s])
        /\ ~HasBranch(branches, slug[s])

\* C4 (as claimed): reconciliation deletes worktree and branch only if the tip
\* equals the original committish at teardown; the teardown finds the tip
\* equal to it only in sessions that were clean at session end and made no
\* commit; and whenever the tip differs, both persist.
C4_DeletionOnlyWhenCleanAndUnmoved ==
    [][ \A s \in Sessions :
          ReconcileStep(s) =>
              /\ ~KeptAfter(s) => branches[slug[s]] = committish[s]
              /\ (ipc'[s] = "TERMINAL" /\ cleanup'[s] # NotRun) =>
                     CleanAndUnmoved(s)
              /\ branches[slug[s]] # committish[s] => KeptAfter(s) ]_vars

\* C5 (as claimed): if the status query fails, reconciliation does not delete
\* the worktree or the branch.
C5_StatusFailureKeeps ==
    [][ \A s \in Sessions :
          (ReconcileStep(s) /\ git_status'[s] # 0) => KeptAfter(s) ]_vars

\* C6: if the tip query fails, reconciliation runs no cleanup and deletes
\* neither the worktree nor the branch.
C6_TipFailureKeeps ==
    [][ \A s \in Sessions :
          (ReconcileStep(s) /\ ipc'[s] = "TERMINAL" /\ current_commit'[s] # 0) =>
              /\ cleanup'[s] = NotRun
              /\ KeptAfter(s) ]_vars

\* a session that ended with a failed tip query and kept worktree and branch
C6_Witness ==
    \E s \in Sessions :
        /\ ipc[s] = "TERMINAL"
        /\ current_commit[s] = 1
        /\ ~dirty[s]
        /\ branches[slug[s]] = committish[s]
        /\ HasWorktree(worktrees, slug[s])

(***************************************************************************)
(* Slug allocation.                                                        *)
(***************************************************************************)
\* unique_work_dir = f"/home/agent/work-{args.slug}"
unique_work_dir(n) == << "/home/agent/work-" >> \o n

\* C7: however the controllers interleave, no two running containers hold the
\* same slug, no two sessions with a running sandbox share a slug, and no two
\* registered worktrees share a slug or a work directory.
C7_SlugIdentifiesOneSession ==
    /\ \A c1 \in registry, c2 \in registry :
          (c1.running /\ c2.running /\ c1.name = c2.name) => c1 = c2
    /\ \A s1 \in Sessions, s2 \in Sessions :
          (s1 # s2 /\ IsRunning(registry, s1) /\ IsRunning(registry, s2)) =>
              slug[s1] # slug[s2]
    /\ \A w1 \in worktrees, w2 \in worktrees :
          (w1.slug = w2.slug \/ unique_work_dir(w1.slug) = unique_work_dir(w2.slug))
              => w1 = w2

\* two controllers were handed the same slug; one runs its sandbox with the
\* worktree registered, the launch of the other was refused
C7_Witness ==
    \E s1 \in Sessions, s2 \in Sessions :
        /\ s1 # s2
        /\ slug[s1] = slug[s2]
        /\ IsRunning(registry, s1)
        /\ ipc[s1] = "WORKTREE_READY"
        /\ opc[s2] = "exited"
        /\ ipc[s2] = "none"

AttemptStep(s) == opc[s] = "alloc" /\ draws'[s] = draws[s] + 1

\* C8: an allocator whose first registry query succeeds against an empty
\* registry returns the slug of that draw, without a second draw.
C8_FirstDrawSucceedsOnEmptyRegistry ==
    [][ \A s \in Sessions :
          (AttemptStep(s) /\ draws[s] = 0 /\ registry = {} /\ result'[s] = 0) =>
              /\ opc'[s] = "prepare"
              /\ slug'[s] \in Slugs ]_vars

\* the allocator returned after one draw against an empty registry
C8_Witness ==
    /\ opc[1] = "prepare"
    /\ draws[1] = 1
    /\ result[1] = 0
    /\ registry = {}

\* the allocator never draws more than max_attempts times and returns only a
\* slug whose query succeeded and showed no container of exactly that name
AllocatorBoundedAndSound(s) ==
    /\ draws'[s] <= max_attempts
    /\ (AttemptStep(s) /\ draws'[s] = max_attempts) => opc'[s] # "alloc"
    /\ (AttemptStep(s) /\ opc'[s] = "prepare") =>
           (result'[s] = 0 /\ ~NameTaken(registry, slug'[s]))

\* C9 (as claimed): the allocator ends within max_attempts draws; it returns
\* only a slug whose query succeeded without an exact-name match; and it fails
\* with AllocationExhausted only on collisions (stated for the attempt that
\* raises the error: that attempt collided).
C9_ExhaustedOnlyByCollisions ==
    [][ \A s \in Sessions :
          /\ AllocatorBoundedAndSound(s)
          /\ (AttemptStep(s) /\ opc'[s] = "exhausted") =>
                 (result'[s] = 0 /\ NameTaken(registry, slug'[s])) ]_vars

\* C9 (amended): the allocator ends within max_attempts draws; it returns only
\* a slug whose query succeeded without an exact-name match; it fails with
\* AllocationExhausted after exactly max_attempts draws, each of which either
\* collided or had its registry query fail.
C9_ExhaustedByCollisionOrQueryFailure ==
    [][ \A s \in Sessions :
          /\ AllocatorBoundedAndSound(s)
          /\ (AttemptStep(s) /\ opc'[s] # "prepare") =>
                 (result'[s] # 0 \/ NameTaken(registry, slug'[s]))
          /\ (AttemptStep(s) /\ opc'[s] = "exhausted") =>
                 draws'[s] = max_attempts ]_vars

\* the allocator gave up after max_attempts draws, the last on a failed query
C9_Witness ==
    /\ opc[1] = "exhausted"
    /\ draws[1] = max_attempts
    /\ result[1] = 1

(***************************************************************************)
(* The dashboard state tracker.                                            *)
(***************************************************************************)
SameEntry(id) ==
    /\ Tracked(container_states', id)
    /\ LET state == StateOf(container_states, id)
           kept  == StateOf(container_states', id)
       IN /\ kept.last_change_time = state.last_change_time
          /\ kept.pane_content = state.pane_content
          /\ kept.content_hash = state.content_hash

\* C10: when a poll captures for a tracked container the same text as the poll
\* before it, that container's last-change timestamp, stored content and
\* fingerprint are left as they were, through the end of the poll.
C10_SameCaptureChangesNothing ==
    [][ \A id \in ContainerIds :
          ( /\ id \in DOMAIN captured
            /\ id \in DOMAIN captured'
            /\ captured'[id] = captured[id]
            /\ Tracked(container_states, id) ) => SameEntry(id) ]_vars

\* a poll has visited container 1 and captured "$", the only text with its
\* digest, while container 2, tracked since an earlier poll, is not visited
\* yet; the entry of 1 is older than that of 2, so no visit since 2 was first
\* seen changed it: the poll before this one captured "$" for 1 as well
C10_Witness ==
    /\ request \in PollPaths
    /\ 1 \in current_ids
    /\ 2 \notin current_ids
    /\ Tracked(container_states, 1)
    /\ Tracked(container_states, 2)
    /\ captured[1] = "$"
    /\ StateOf(container_states, 1).pane_content = "$"
    /\ StateOf(container_states, 1).last_change_time
           < StateOf(container_states, 2).last_change_time

\* the ids the tracker holds
TrackedIds(states) == { states[k].container_id : k \in DOMAIN states }

\* the step in which a poll visits container id
VisitStep(id) == id \notin current_ids /\ id \in current_ids'

\* the content was replaced by the captured text and the timestamp moved on
Replaced(id) ==
    /\ StateOf(container_states', id).pane_content = captured'[id]
    /\ StateOf(container_states', id).last_change_time
           > StateOf(container_states, id).last_change_time

\* C11 (as claimed): when a poll captures, for a tracked container, text that
\* differs from the stored text, the stored content becomes that text and the
\* last-change timestamp becomes strictly greater.
C11_ChangedTextIsStored ==
    [][ \A id \in ContainerIds :
          ( /\ VisitStep(id)
            /\ Tracked(container_states, id)
            /\ captured'[id] # StateOf(container_states, id).pane_content )
          => Replaced(id) ]_vars

\* C11 (amended): when a poll captures, for a tracked container, text whose
\* fingerprint differs from the stored fingerprint, the stored content becomes
\* that text and the last-change timestamp becomes strictly greater.
C11_ChangedFingerprintIsStored ==
    [][ \A id \in ContainerIds :
          ( /\ VisitStep(id)
            /\ Tracked(container_states, id)
            /\ Md5(captured'[id]) # StateOf(container_states, id).content_hash )
          => Replaced(id) ]_vars

\* container_states keeps insertion order and every read of the clock returns
\* more than the one before, so an entry that is newer than an entry behind
\* it was rewritten by a later visit: the poll under way stored "collA" for it
C11_Witness ==
    /\ request \in PollPaths
    /\ \E k \in DOMAIN container_states, l \in DOMAIN container_states :
          /\ k < l
          /\ container_states[k].last_change_time
                 > container_states[l].last_change_time
          /\ container_states[k].container_id \in current_ids
          /\ container_states[l].container_id \notin current_ids
          /\ container_states[k].pane_content = "collA"
          /\ captured[container_states[k].container_id] = "collA"

\* the step that ends a poll and sends the view
RespondStep == request \in PollPaths /\ request' = Idle

\* the containers a rendered view lists, by name
Listed(body) == { body[i].name : i \in DOMAIN body }

\* C12: at the end of each poll the tracked ids are the candidate ids of that
\* poll; an id tracked before and not among the candidates is removed, and
\* the view rendered lists the candidates and nothing else.
C12_TrackedAreTheCandidates ==
    [][ RespondStep =>
          /\ TrackedIds(container_states') = current_ids
          /\ response'.status = 200
          /\ Listed(response'.body) = { DockerPsLine(id).Names : id \in current_ids }
          /\ Len(response'.body) = Cardinality(current_ids) ]_vars

\* a poll has ended that lists container 1 only, whose entry dates from the
\* first read of the clock; the clock was read a second time, which only the
\* first sight of container 2 can have done: container 2 was tracked at the
\* end of a poll, and a later poll has removed it
C12_Witness ==
    /\ request = Idle
    /\ response.status = 200
    /\ Len(response.body) = 1
    /\ TrackedIds(container_states) = {1}
    /\ StateOf(container_states, 1).last_change_time = 1
    /\ now = 2

\* the ids in the order in which a view lists the containers
ViewOrder(states) ==
    LET view == Render("/api/containers", states)
    IN [ i \in DOMAIN view |-> view[i].id ]

\* the containers other than id are listed in the same relative order
OthersKeepOrder(id) ==
    LET Other(listed) == listed # id
    IN SelectSeq(ViewOrder(container_states'), Other)
           = SelectSeq(ViewOrder(container_states), Other)

\* the view sent is by last-change timestamp, most recent first
SentByRecency ==
    RespondStep =>
        /\ Len(response'.body) = Len(container_states')
        /\ \A i \in DOMAIN response'.body, j \in DOMAIN response'.body :
              i < j =>
                 \E k \in DOMAIN container_states', l \in DOMAIN container_states' :
                    /\ k # l
                    /\ container_states'[k].name = response'.body[i].name
                    /\ container_states'[l].name = response'.body[j].name
                    /\ container_states'[k].last_change_time
                           >= container_states'[l].last_change_time

\* C13 (as claimed): both views are sent by last-change timestamp, most
\* recent first; a container whose captured text differs from the stored text
\* is listed first from then on, the others keep their relative order, and a
\* container whose text did not change leaves the order as it was.
C13_ChangedTextMovesToTop ==
    [][ /\ SentByRecency
        /\ \A id \in ContainerIds :
             (VisitStep(id) /\ Tracked(container_states, id)) =>
                 /\ OthersKeepOrder(id)
                 /\ IF captured'[id] # StateOf(container_states, id).pane_content
                    THEN ViewOrder(container_states')[1] = id
                    ELSE ViewOrder(container_states') = ViewOrder(container_states)
      ]_vars

\* C13 (amended): both views are sent by last-change timestamp, most recent
\* first; a tracked container for which a poll finds a changed fingerprint is
\* listed first from then on, until another container changes or is first
\* seen, the others keep their relative order, and a container whose
\* fingerprint did not change leaves the order as it was.
C13_ChangedFingerprintMovesToTop ==
    [][ /\ SentByRecency
        /\ \A id \in ContainerIds :
             (VisitStep(id) /\ Tracked(container_states, id)) =>
                 /\ OthersKeepOrder(id)
                 /\ IF Md5(captured'[id]) # StateOf(container_states, id).content_hash
                    THEN ViewOrder(container_states')[1] = id
                    ELSE ViewOrder(container_states') = ViewOrder(container_states)
        /\ \A id \in ContainerIds :
             (VisitStep(id) /\ ~Tracked(container_states, id)) =>
                 /\ OthersKeepOrder(id)
                 /\ ViewOrder(container_states')[1] = id
      ]_vars

\* the API has listed 2, 3, 1: the three containers were first seen in the
\* order 1, 2, 3, and the fourth read of the clock was for new text of
\* container 2, whose entry has kept its place in the table
C13_Witness ==
    /\ request = Idle
    /\ response.status = 200
    /\ response.content_type = "application/json"
    /\ Len(response.body) = 3
    /\ response.body[1].id = 2 /\ response.body[1].lastChange = 4
    /\ response.body[1].content = "collA"
    /\ response.body[2].id = 3 /\ response.body[2].lastChange = 3
    /\ response.body[3].id = 1 /\ response.body[3].lastChange = 1
    /\ container_states[2].container_id = 2

\* each stored fingerprint is the fingerprint of the stored content
FingerprintOfContent ==
    \A k \in DOMAIN container_states :
        container_states[k].content_hash = Md5(container_states[k].pane_content)

HashChanged(id) ==
    StateOf(container_states', id).content_hash
        # StateOf(container_states, id).content_hash

\* C14 (as claimed): each stored fingerprint is the fingerprint of the stored
\* content, and a poll changes the stored fingerprint of a tracked container
\* if and only if the text it captures differs from the stored text.
C14_FingerprintChangesIffTextDiffers ==
    [][ /\ FingerprintOfContent'
        /\ \A id \in ContainerIds :
             (VisitStep(id) /\ Tracked(container_states, id)) =>
                 ( HashChanged(id) <=>
                     captured'[id] # StateOf(container_states, id).pane_content )
      ]_vars

\* C14 (amended): each stored fingerprint is the fingerprint of the stored
\* content, and a poll changes the stored fingerprint of a tracked container
\* if and only if the fingerprint of the text it captures differs from the
\* stored one; so the fingerprint changes only if the text differs, and
\* outside a visit of the container it does not change.
C14_FingerprintChangesIffFingerprintDiffers ==
    [][ /\ FingerprintOfContent'
        /\ \A id \in ContainerIds :
             (Tracked(container_states, id) /\ Tracked(container_states', id)) =>
                 /\ HashChanged(id) <=>
                      ( /\ VisitStep(id)
                        /\ Md5(captured'[id])
                               # StateOf(container_states, id).content_hash )
                 /\ HashChanged(id) =>
                      captured'[id] # StateOf(container_states, id).pane_content
      ]_vars

\* the poll under way captured "collB" for a container whose entry holds
\* "collA": the texts differ, the fingerprints do not, the entry was left alone
C14_Witness ==
    \E id \in ContainerIds :
        /\ request \in PollPaths
        /\ id \in current_ids
        /\ Tracked(container_states, id)
        /\ captured[id] = "collB"
        /\ StateOf(container_states, id).pane_content = "collA"
        /\ StateOf(container_states, id).content_hash = Md5("collB")

\* C15: the last-change timestamp of a tracked container never decreases, and
\* it advances only in the visit of a poll that finds a fingerprint different
\* from the stored one.
C15_TimestampIsMonotonic ==
    [][ \A id \in ContainerIds :
          (Tracked(container_states, id) /\ Tracked(container_states', id)) =>
              /\ StateOf(container_states', id).last_change_time
                     >= StateOf(container_states, id).last_change_time
              /\ StateOf(container_states', id).last_change_time
                     > StateOf(container_states, id).last_change_time
                   => ( /\ VisitStep(id)
                        /\ Md5(captured'[id])
                               # StateOf(container_states, id).content_hash )
      ]_vars

\* between two requests: the entry of a container is newer than an entry that
\* was added to the table after it, so a poll has advanced its timestamp; and
\* the other entry still carries the time of its first sight
C15_Witness ==
    /\ request = Idle
    /\ Len(container_states) = 2
    /\ container_states[1].last_change_time = 3
    /\ container_states[2].last_change_time = 2

\* the entries of the containers other than id are as they were
OthersUntouched(id) ==
    \A k \in DOMAIN container_states :
        container_states[k].container_id # id =>
            container_states'[k] = container_states[k]

\* C16: with requests waiting while a poll runs, the poll under way is never
\* replaced or joined by another: each step either leaves the tracker alone
\* or is the visit of the next pending container, which compares and writes
\* the entry of that one container in one step, or ends the poll.
C16_PollsAreSerialized ==
    [][ (request \in PollPaths) =>
        ( \/ /\ request' = request
             /\ pending' = pending
             /\ current_ids' = current_ids
             /\ container_states' = container_states
          \/ /\ request' = request
             /\ pending # << >>
             /\ pending' = Tail(pending)
             /\ current_ids' = current_ids \cup { Head(pending).ID }
             /\ OthersUntouched(Head(pending).ID)
             /\ FingerprintOfContent'
          \/ /\ request' = Idle
             /\ pending = << >>
             /\ container_states' = RemoveAbsent(container_states, current_ids) )
      ]_vars

\* two requests wait in the listen queue while a poll is half way through
\* its candidates
C16_Witness ==
    /\ backlog = 2
    /\ request \in PollPaths
    /\ current_ids = {1}
    /\ Len(pending) = 1
    /\ Tracked(container_states, 1)

\* the step in which a poll lists its candidates
ListStep == request = Idle /\ request' \in PollPaths

\* C17: a container whose probe fails or times out is left out of the
\* candidates of the poll and no error is sent; every container whose probe
\* succeeds is a candidate and has been captured and is tracked when the poll
\* ends, while the ones left out are not tracked then.
C17_ProbeFailureExcludesOne ==
    [][ ( ListStep =>
            ( /\ { pending'[i].ID : i \in DOMAIN pending' }
                   = { id \in DOMAIN check_results' : check_results'[id] }
              /\ response'.status = 0 ) )
        /\
        ( RespondStep =>
            ( /\ response'.status = 200
              /\ \A id \in DOMAIN check_results :
                   ( /\ check_results[id] =>
                          ( Tracked(container_states', id)
                               /\ id \in DOMAIN captured' )
                     /\ ~check_results[id] => ~Tracked(container_states', id) ) ) )
      ]_vars

\* a poll has left out container 1, whose probe failed, and has captured
\* container 2 in the same cycle
C17_Witness ==
    /\ request \in PollPaths
    /\ check_results = (1 :> FALSE @@ 2 :> TRUE)
    /\ pending = << >>
    /\ current_ids = {2}
    /\ TrackedIds(container_states) = {2}
    /\ 2 \in DOMAIN captured

\* C18 (as claimed): when the capture of a container's pane fails, the poll
\* goes on with the remaining candidates and the content of that container
\* becomes an inline error string.
C18_CaptureFailureShowsError ==
    [][ \A id \in ContainerIds :
          (VisitStep(id) /\ captured'[id] # pane_text[id]) =>
              /\ pending' = Tail(pending)
              /\ request' = request
              /\ StateOf(container_states', id).pane_content = ErrorText
      ]_vars

\* C19 (as claimed): GET / is answered with the page, GET /api/containers with
\* the JSON array, and a GET for every other path with status 404.
C19_OnlyTwoPathsAreServed ==
    response.status # 0 =>
        CASE response.path = "/" ->
                 response.status = 200
                     /\ response.content_type = "text/html; charset=utf-8"
          [] response.path = "/api/containers" ->
                 response.status = 200
                     /\ response.content_type = "application/json"
          [] OTHER -> response.status = 404

\* C19 (amended): GET / and GET /index.html are answered with the page, GET
\* /api/containers with the JSON array, and a GET for every other path with
\* status 404.
C19_ThreePathsAreServed ==
    response.status # 0 =>
        CASE response.path \in {"/", "/index.html"} ->
                 /\ response.status = 200
                 /\ response.content_type = "text/html; charset=utf-8"
                 /\ \A i \in DOMAIN response.body :
                      DOMAIN response.body[i] = {"name", "content"}
          [] response.path = "/api/containers" ->
                 /\ response.status = 200
                 /\ response.content_type = "application/json"
                 /\ \A i \in DOMAIN response.body :
                      DOMAIN response.body[i] =
                          {"id", "name", "lastChange", "yattyPort", "content"}
          [] OTHER -> response.status = 404 /\ response.body = << >>

\* a request for a path the handler does not know was answered 404 while the
\* tracker held a container
C19_Witness ==
    /\ response.path = "/favicon.ico"
    /\ response.status = 404
    /\ container_states # << >>

(***************************************************************************)
(* The sandbox initializer as a state machine.                             *)
(***************************************************************************)
\* the states of the initializer in the order of the spec, and its dead ends
InitializerOrder ==
    << "INIT", "WORKTREE_READY", "PANES_READY", "RUNNING", "RECONCILING",
       "TERMINAL" >>

Stopped == {"ABORTED", "CRASHED", "KILLED"}

Rank(state) == CHOOSE i \in DOMAIN InitializerOrder : InitializerOrder[i] = state

\* C20 (as claimed): the initializer moves from each state only to the next
\* one of INIT, WORKTREE_READY, PANES_READY, RUNNING, RECONCILING, TERMINAL, or
\* stops; a provisioning step that failed is not followed by a later state
\* (WORKTREE_READY has the worktree and its branch, PANES_READY has the tmux
\* session with the primary window and every auxiliary one); and no step of
\* reconciliation has run before the wait of RUNNING has ended.
C20_InitializerOrder ==
    [][ \A s \in Sessions :
          /\ (ipc'[s] # ipc[s] /\ ipc[s] # "none") =>
                 /\ ipc[s] \notin Stopped \cup {"TERMINAL"}
                 /\ \/ ipc'[s] \in Stopped
                    \/ /\ ipc'[s] \notin Stopped \cup {"none"}
                       /\ Rank(ipc'[s]) = Rank(ipc[s]) + 1
          /\ (ipc'[s] # ipc[s] /\ ipc[s] = "none") => ipc'[s] = "INIT"
          /\ (ipc[s] = "INIT" /\ ipc'[s] = "WORKTREE_READY") =>
                 /\ HasWorktree(worktrees', slug[s])
                 /\ HasBranch(branches', slug[s])
          /\ (ipc[s] = "WORKTREE_READY" /\ ipc'[s] = "PANES_READY") =>
                 panes'[s] = additional_panes + 1
          /\ ipc'[s] \in {"none", "INIT", "WORKTREE_READY", "PANES_READY", "RUNNING"} =>
                 /\ git_status'[s] = NotRun
                 /\ current_commit'[s] = NotRun
                 /\ cleanup'[s] = NotRun
      ]_vars

(***************************************************************************)
(* The end of a session.                                                   *)
(***************************************************************************)
\* the step in which the wait of RUNNING ends for the sandbox of s
WaitEnds(s) == ipc[s] = "RUNNING" /\ ipc'[s] # "RUNNING"

\* C21 (as claimed): a session that reached RUNNING and is ended from outside,
\* by a stop of its container or by an interrupt of its wait, goes on to
\* RECONCILING, and a session in RECONCILING eventually reaches TERMINAL.
C21_EndedSessionsReachTerminal ==
    /\ [][ \A s \in Sessions : WaitEnds(s) => ipc'[s] = "RECONCILING" ]_vars
    /\ \A s \in Sessions : (ipc[s] = "RECONCILING") ~> (ipc[s] = "TERMINAL")

(***************************************************************************)
(* Provisioning against a name that is taken.                              *)
(***************************************************************************)
\* the step in which the sandbox of s provisions its worktree, or fails to
ProvisionStep(s) == ipc[s] = "INIT" /\ ipc'[s] # "INIT"

\* a branch named after the slug of s exists, or its worktree is registered
NameCollision(s) ==
    HasBranch(branches, slug[s]) \/ HasWorktree(worktrees, slug[s])

\* C22: when provisioning meets a branch or a worktree that already carries
\* the slug, the initializer aborts: the branches and worktrees are left as
\* they are, no pane is created and no step of reconciliation runs, then or
\* later (an initializer that has stopped changes nothing any more).
C22_ConflictAborts ==
    [][ \A s \in Sessions :
          /\ (ProvisionStep(s) /\ NameCollision(s)) =>
                 /\ ipc'[s] = "ABORTED"
                 /\ ~IsRunning(registry', s)
                 /\ branches' = branches
                 /\ worktrees' = worktrees
                 /\ panes'[s] = 0
                 /\ git_status'[s] = NotRun
                 /\ current_commit'[s] = NotRun
                 /\ cleanup'[s] = NotRun
          /\ ipc[s] \in Stopped =>
                 /\ ipc'[s] = ipc[s]
                 /\ branches' = branches
                 /\ worktrees' = worktrees
                 /\ panes'[s] = panes[s]
                 /\ git_status'[s] = git_status[s]
                 /\ current_commit'[s] = current_commit[s]
                 /\ cleanup'[s] = cleanup[s] ]_vars

\* the sandbox drew the slug of a worktree and branch kept from an earlier
\* session and has aborted: it owns no worktree, the kept ones are there
C22_Witness ==
    /\ ipc[1] = "ABORTED"
    /\ panes[1] = 0
    /\ branches[slug[1]] = HostHead
    /\ Worktree(slug[1], 0) \in worktrees
    /\ \A w \in worktrees : w.owner # 1

(***************************************************************************)
(* Interrupts of the controller.                                           *)
(***************************************************************************)
\* the step in which SIGINT takes the controller of s out of its exit-wait
InterruptedWait(s) == opc[s] = "waiting" /\ opc'[s] \notin {"waiting", "exited"}

\* the sandbox of s ran no step of its own
SandboxDidNotMove(s) ==
    /\ ipc'[s] \in {ipc[s], "KILLED"}
    /\ panes'[s] = panes[s]
    /\ git_status'[s] = git_status[s]
    /\ current_commit'[s] = current_commit[s]
    /\ cleanup'[s] = cleanup[s]
    /\ branches' = branches
    /\ worktrees' = worktrees

PrepareStep(s) == opc[s] = "prepare" /\ opc'[s] # "prepare"

\* nothing of s was launched: no container, no sandbox, no redirect server
NothingLaunched(s) ==
    /\ \A c \in registry' : c.owner # s
    /\ ipc'[s] = "none"
    /\ gate'[s] = "none"

\* C24: when the git context cannot be resolved or the agent key is not in
\* the configuration, the controller fails fatally before it starts any
\* container, and a controller that has failed so never starts one.
C24_FatalBeforeLaunch ==
    [][ \A s \in Sessions :
          /\ ( /\ PrepareStep(s)
                /\ (committish'[s] = NoCommit \/ agent[s] \notin agents) ) =>
                 /\ opc'[s] = "fatal"
                 /\ NothingLaunched(s)
          /\ opc[s] = "fatal" =>
                 /\ opc'[s] = "fatal"
                 /\ NothingLaunched(s) ]_vars

\* the git context was resolved, the agent key "vim" is not configured: the
\* controller has failed and there is no container
C24_Witness ==
    /\ opc[1] = "fatal"
    /\ agent[1] = "vim"
    /\ committish[1] = HostHead
    /\ \A c \in registry : c.owner # 1
    /\ ipc[1] = "none"

\* C29 (as claimed): after the detached sandbox has been started, an
\* interrupt never ends the controller while the sandbox is left running.
C29_InterruptNeverLeavesSandboxRunning ==
    [][ \A s \in Sessions :
          ( /\ open_browser[s]
            /\ IsRunning(registry, s)
            /\ opc'[s] \in {"stopped", "interrupted"}
            /\ opc[s] # opc'[s] ) => ~IsRunning(registry', s) ]_vars

(***************************************************************************)
(* The hostname gate.                                                      *)
(***************************************************************************)
\* the step in which the handler of s has detected the suffix
DetectStep(s) == gate[s] = "listening" /\ gate'[s] \notin {"listening", "dead"}

\* C25: on the one request it serves, a gate that finds no naming suffix
\* answers 500 in the step of the detection and never queries the resolver.
C25_NoSuffixAnswers500 ==
    [][ \A s \in Sessions :
          /\ (DetectStep(s) /\ magic_dns_suffix'[s] = NoSuffix) =>
                 /\ gate'[s] = "done"
                 /\ Len(sent'[s]) = 1
                 /\ sent'[s][1].status = 500
          /\ (sent[s] # << >> /\ sent[s][1].status = 500) =>
                 /\ sent'[s] = sent[s]
                 /\ attempt'[s] = 0
                 /\ dig_result'[s] = NotRun ]_vars

\* the gate has answered 500 without a query of the resolver
C25_Witness ==
    /\ gate[1] = "done"
    /\ magic_dns_suffix[1] = NoSuffix
    /\ Len(sent[1]) = 1
    /\ sent[1][1].status = 500
    /\ attempt[1] = 0
    /\ dig_result[1] = NotRun

\* the step in which the gate of s writes a response
SendStep(s) == sent'[s] # sent[s]

\* C26: with a naming suffix, the gate never writes a second response and
\* its handler returns with one written; a 302 is written only in the turn
\* whose query returned an answer, to http://<slug>.<suffix>:8001/; a 504 is
\* written only when the window of 20 units since the start of the request
\* has elapsed and the last query had no answer, with a diagnostic body; and
\* between two queries pass the sleep of half a unit and the time of the
\* query, which is at most its timeout.
C26_GateAnswersOnce ==
    [][ \A s \in Sessions :
          /\ Len(sent'[s]) <= 1
          /\ gate'[s] = "done" => Len(sent'[s]) = 1
          /\ (SendStep(s) /\ SuffixKnown(magic_dns_suffix'[s])) =>
                 /\ gate[s] = "polling"
                 /\ gate'[s] = "done"
                 /\ \/ /\ sent'[s][1].status = 302
                       /\ sent'[s][1].location
                              = target_url(slug[s], magic_dns_suffix[s])
                       /\ attempt'[s] = attempt[s] + 1
                       /\ dig_result'[s] = "answer"
                    \/ /\ sent'[s][1].status = 504
                       /\ sent'[s][1].body # ""
                       /\ elapsed[s] >= timeout * TicksPerUnit
                       /\ attempt'[s] = attempt[s]
                       /\ dig_result[s] # "answer"
          /\ (gate'[s] = "polling" /\ attempt'[s] # attempt[s]) =>
                 /\ attempt'[s] = attempt[s] + 1
                 /\ elapsed[s] < timeout * TicksPerUnit
                 /\ elapsed'[s] - elapsed[s] \in 1..(DigTimeout + 1) ]_vars

\* the gate has answered 504 after a query every half unit for the whole
\* window
C26_Witness ==
    /\ gate[1] = "done"
    /\ magic_dns_suffix[1] = "ts.net"
    /\ Len(sent[1]) = 1
    /\ sent[1][1].status = 504
    /\ attempt[1] = timeout * TicksPerUnit
    /\ elapsed[1] = timeout * TicksPerUnit

(***************************************************************************)
(* Merging the overlay configuration.                                      *)
(***************************************************************************)
\* the merge the specification describes: dicts merge key by key at every
\* depth, lists concatenate, everything else is replaced by the overlay
RECURSIVE DeepMerge(_, _)
DeepMerge(base, overlay) ==
    IF base.kind = "dict" /\ overlay.kind = "dict"
    THEN Dict([ key \in DOMAIN base.items \cup DOMAIN overlay.items |->
                  IF key \notin DOMAIN overlay.items THEN base.items[key]
                  ELSE IF key \notin DOMAIN base.items THEN overlay.items[key]
                  ELSE DeepMerge(base.items[key], overlay.items[key]) ])
    ELSE IF base.kind = "list" /\ overlay.kind = "list"
    THEN List(base.items \o overlay.items)
    ELSE overlay

\* the step in which load_config merges the two documents
MergeStep == config = NoDocument /\ config' # config

\* C27 (as claimed): the merged configuration is the deep merge of the two
\* documents: objects merge recursively at every depth, sequences become
\* base followed by overlay, scalars are replaced, keys of one document only
\* are kept.
C27_MergeIsDeep ==
    [][ MergeStep => config' = DeepMerge(base_config, overlay_config) ]_vars

\* the value of key in the merged document, given both documents hold it
MergedOneLevel(merged, base, overlay) ==
    IF base.kind = "dict" /\ overlay.kind = "dict"
    THEN /\ merged.kind = "dict"
         /\ DOMAIN merged.items = DOMAIN base.items \cup DOMAIN overlay.items
         /\ \A k \in DOMAIN merged.items :
               merged.items[k] = IF k \in DOMAIN overlay.items
                                 THEN overlay.items[k] ELSE base.items[k]
    ELSE IF base.kind = "list" /\ overlay.kind = "list"
    THEN /\ merged.kind = "list"
         /\ Len(merged.items) = Len(base.items) + Len(overlay.items)
         /\ SubSeq(merged.items, 1, Len(base.items)) = base.items
         /\ SubSeq(merged.items, Len(base.items) + 1, Len(merged.items))
               = overlay.items
    ELSE merged = overlay

\* C27 (amended): for a key of both documents, two objects are merged one
\* level deep (the keys of both, each with the overlay's value where the
\* overlay has the key, whole, and with the base's value otherwise), two
\* sequences become base followed by overlay, and in every other case the
\* overlay's value replaces the base's; a key of one document only keeps its
\* value.
C27_MergeIsOneLevel ==
    [][ MergeStep =>
          /\ config'.kind = "dict"
          /\ DOMAIN config'.items
                = DOMAIN base_config.items \cup DOMAIN overlay_config.items
          /\ \A key \in DOMAIN config'.items :
                IF key \notin DOMAIN overlay_config.items
                THEN config'.items[key] = base_config.items[key]
                ELSE IF key \notin DOMAIN base_config.items
                THEN config'.items[key] = overlay_config.items[key]
                ELSE MergedOneLevel(config'.items[key], base_config.items[key],
                                    overlay_config.items[key]) ]_vars

\* base {"agents": {"x": {"a": "s"}, "y": ["A"]}} and overlay {"agents":
\* {"x": {"b": "s"}}} were merged: "y" of the base is kept, "x" is the
\* overlay's object, without the key "a" of the base
C27_Witness ==
    /\ base_config = Dict([agents |-> Dict([x |-> Dict([a |-> Scalar("s")]),
                                            y |-> List(<<"A">>)])])
    /\ overlay_config = Dict([agents |-> Dict([x |-> Dict([b |-> Scalar("s")])])])
    /\ config = Dict([agents |-> Dict([x |-> Dict([b |-> Scalar("s")]),
                                       y |-> List(<<"A">>)])])

(***************************************************************************)
(* The terminal session of a running sandbox.                              *)
(***************************************************************************)
\* C28 (as claimed): a sandbox that is RUNNING has its tmux session with the
\* primary window and one window per configured auxiliary pane, N + 1 for N
\* configured, N = 0 included; after a failed tmux call RUNNING is not
\* reached.
C28_RunningHasEveryPane ==
    \A s \in Sessions :
        ipc[s] = "RUNNING" => panes[s] = additional_panes + 1

(***************************************************************************)
(* The timestamp of a quiet container.                                     *)
(***************************************************************************)
\* the containers of SpecView that keep running and never print
QuietContainers == ContainerIds \ {1, 2}

\* C30 (as claimed): a container that keeps running and whose terminal text
\* never changes keeps its last-change timestamp across every poll, also
\* across polls that fail to list it or to capture its pane: once tracked it
\* stays tracked (an entry that is dropped comes back with a later time)
\* and the time of its entry does not change.
C30_QuietContainerKeepsTimestamp ==
    [][ \A id \in QuietContainers :
          Tracked(container_states, id) =>
              /\ Tracked(container_states', id)
              /\ StateOf(container_states', id).last_change_time
                   = StateOf(container_states, id).last_change_time
      ]_vars

(***************************************************************************)
(* The request of the hostname gate is answered.                           *)
(***************************************************************************)
\* C31 (as claimed): the request the hostname gate has accepted is eventually
\* answered (500, 302 or 504) in every execution, also when the container
\* launch fails or the controller ends its wait before the name resolves.
C31_AcceptedRequestIsAnswered ==
    \A s \in {1} : (gate[s] = "polling") ~> (Len(sent[s]) = 1)

(***************************************************************************)
(* What a request may change.                                              *)
(***************************************************************************)
\* two state tables hold the same entries in the same order (the port is
\* None or a number)
SameTable(states, kept) ==
    /\ Len(kept) = Len(states)
    /\ \A k \in DOMAIN states :
          /\ kept[k].container_id = states[k].container_id
          /\ kept[k].last_change_time = states[k].last_change_time
          /\ kept[k].content_hash = states[k].content_hash
          /\ kept[k].pane_content = states[k].pane_content
          /\ kept[k].name = states[k].name
          /\ ToString(kept[k].yatty_port) = ToString(states[k].yatty_port)

\* the requests for one of the two views, the page and the JSON array
ViewPaths == { path \in Paths : Route(path) # NotFound }

\* C32: the state table changes only while a request for one of the two
\* views is served, never between requests; such a request runs one poll
\* cycle (one listing, one visit of each candidate in turn, the removal of the
\* ids not visited) and renders after it; a request answered 404 starts no
\* poll and leaves the table, the clock and the ids of the poll as they were.
C32_OnlyViewRequestsChangeTheTable ==
    [][ /\ (request = Idle) =>
              /\ SameTable(container_states, container_states')
              /\ now' = now
              /\ request' \in ViewPaths \cup {Idle}
              /\ (request' = Idle) =>
                     /\ pending' = pending
                     /\ current_ids' = current_ids
                     /\ response'.status \in {response.status, 404}
              /\ (request' # Idle) =>
                     /\ current_ids' = {}
                     /\ response'.status = 0
        /\ (request # Idle) =>
              /\ request \in ViewPaths
              /\ request' \in {request, Idle}
              /\ (request' = request) =>
                     /\ response'.status = 0
                     /\ \/ pending' = pending /\ current_ids' = current_ids
                              /\ SameTable(container_states, container_states')
                        \/ /\ pending # << >>
                           /\ pending' = Tail(pending)
                           /\ current_ids' = current_ids \cup { Head(pending).ID }
              /\ (request' = Idle) =>
                     /\ pending = << >>
                     /\ response'.status = 200
                     /\ response'.path = request
                     /\ TrackedIds(container_states') = current_ids
      ]_vars

\* GET /favicon.ico was answered 404 while container 1 is tracked with "$"
\* and its pane shows "collA" since before the request before it: the table
\* was not refreshed
C32_Witness ==
    /\ request = Idle
    /\ response.status = 404
    /\ response.path = "/favicon.ico"
    /\ 1 \in docker_ps
    /\ pane_text[1] = "collA"
    /\ Tracked(container_states, 1)
    /\ StateOf(container_states, 1).pane_content = "$"

====
